---- MODULE Spec2Model ----
(***************************************************************************)
(* Model of anyconv.Im2Row: the sliding-window geometry (NumX, NumY,       *)
(* InputSize), the output allocator (MakeOut), the lock-guarded mapper     *)
(* cache (Mapper) and the batch applier (MapAll).                          *)
(*                                                                         *)
(* Two specifications share the variables:                                 *)
(*   GeomSpec  applies the pure geometry functions and the index-table     *)
(*             loops to every Im2Row configuration within the bounds;      *)
(*   Spec      runs concurrent Mapper / MapAll calls of several threads on *)
(*             one shared Im2Row.                                          *)
(***************************************************************************)
EXTENDS Integers, Sequences, FiniteSets, TLC

(* ---------------- bounds ---------------- *)
\* GeomSpec: extents (input and window width/height), strides, depth.
MaxExtent == 4
MaxStride == 2
MaxDepth == 2
\* Spec: extents and strides of the shared Im2Row, batch length, number of
\* top-level calls made by all threads together.
MainMaxExtent == 2
MainMaxStride == 2
MaxBatchLen == 2
MaxCalls == 3

Threads == {"t1", "t2"}
Backends == {"A", "B"}

VARIABLES
    im,            \* the Im2Row's exported fields (WindowWidth .. InputDepth)
    mapper,        \* Im2Row.mapper: the cached anyvec.Mapper, or NoMapper (nil)
    mapperLock,    \* Im2Row.mapperLock: the thread holding it, or Unlocked
    pc,            \* per thread: position in Mapper / MapAll
    loc,           \* per thread: arguments and local variables of the running call
    calls,         \* number of top-level calls started so far
    mapperCalls,   \* history: Mapper calls in lock order, <<backend, built>>
    makeMapperLog, \* history: arguments of every backend MakeMapper call
    stepLog,       \* per thread: the invocations of f made by the running MapAll
    gstep,         \* GeomSpec: how many of the geometry calls have been made
    geo            \* GeomSpec: the results of those calls

vars == <<im, mapper, mapperLock, pc, loc, calls, mapperCalls, makeMapperLog,
          stepLog, gstep, geo>>

mainVars == <<mapper, mapperLock, pc, loc, calls, mapperCalls, makeMapperLog, stepLog>>
geomVars == <<gstep, geo>>

(* ---------------- integer arithmetic of the source language ---------------- *)
\* Go's integer division truncates toward zero.
Quot(a, b) == IF a >= 0 THEN a \div b ELSE -((-a) \div b)

\* Go's remainder has the sign of the dividend.
Rem(a, b) == a - b * Quot(a, b)

(* ---------------- window geometry ---------------- *)
InputSize(m) == m.InputWidth * m.InputHeight * m.InputDepth

NumX_NoPlusOne(m) ==
    LET w == Quot(m.InputWidth - m.WindowWidth, m.StrideX)
    IN  IF w < 0 THEN 0 ELSE w

NumX(m) ==
    LET w == 1 + Quot(m.InputWidth - m.WindowWidth, m.StrideX)
    IN  IF w < 0 THEN 0 ELSE w

NumY(m) ==
    LET h == 1 + Quot(m.InputHeight - m.WindowHeight, m.StrideY)
    IN  IF h < 0 THEN 0 ELSE h

\* MakeOut: the shape and the length of the vector it asks the backend for.
MakeOutRows(m) == NumX(m) * NumY(m)
MakeOutCols(m) == m.WindowWidth * m.WindowHeight * m.InputDepth
MakeOutLen(m) == MakeOutRows(m) * MakeOutCols(m)

(* ---------------- index table loops of Mapper ---------------- *)
RECURSIVE YPositions(_, _)
\* for y := 0; y+m.WindowHeight <= m.InputHeight; y += m.StrideY
YPositions(m, y) ==
    IF y + m.WindowHeight <= m.InputHeight
    THEN <<y>> \o YPositions(m, y + m.StrideY)
    ELSE <<>>

RECURSIVE XPositions(_, _)
\* for x := 0; x+m.WindowWidth <= m.InputWidth; x += m.StrideX
XPositions(m, x) ==
    IF x + m.WindowWidth <= m.InputWidth
    THEN <<x>> \o XPositions(m, x + m.StrideX)
    ELSE <<>>

RECURSIVE SubZLoop(_, _, _)
\* for subZ := 0; subZ < m.InputDepth; subZ++ { append(mapping, subXIdx+subZ) }
SubZLoop(m, subXIdx, subZ) ==
    IF subZ < m.InputDepth
    THEN <<subXIdx + subZ>> \o SubZLoop(m, subXIdx, subZ + 1)
    ELSE <<>>

RECURSIVE SubXLoop(_, _, _, _)
\* for subX := 0; subX < m.WindowWidth; subX++ { subXIdx := subYIdx + (subX+x)*m.InputDepth; ... }
SubXLoop(m, x, subYIdx, subX) ==
    IF subX < m.WindowWidth
    THEN SubZLoop(m, subYIdx + (subX + x) * m.InputDepth, 0)
         \o SubXLoop(m, x, subYIdx, subX + 1)
    ELSE <<>>

RECURSIVE SubYLoop_NoDepth(_, _, _, _)
SubYLoop_NoDepth(m, y, x, subY) ==
    IF subY < m.WindowHeight
    THEN SubXLoop(m, x, (y + subY) * m.InputWidth, 0)
         \o SubYLoop_NoDepth(m, y, x, subY + 1)
    ELSE <<>>

RECURSIVE SubYLoop(_, _, _, _)
\* for subY := 0; subY < m.WindowHeight; subY++ { subYIdx := (y+subY)*m.InputWidth*m.InputDepth; ... }
SubYLoop(m, y, x, subY) ==
    IF subY < m.WindowHeight
    THEN SubXLoop(m, x, (y + subY) * m.InputWidth * m.InputDepth, 0)
         \o SubYLoop(m, y, x, subY + 1)
    ELSE <<>>

RECURSIVE XLoop(_, _, _)
XLoop(m, y, xs) ==
    IF xs = <<>> THEN <<>>
    ELSE SubYLoop(m, y, Head(xs), 0) \o XLoop(m, y, Tail(xs))

RECURSIVE YLoop(_, _)
YLoop(m, ys) ==
    IF ys = <<>> THEN <<>>
    ELSE XLoop(m, Head(ys), XPositions(m, 0)) \o YLoop(m, Tail(ys))

\* The mapping slice Mapper hands to MakeMapper.
Mapping(m) == YLoop(m, YPositions(m, 0))

\* The (y, x) placements the two outer loops visit.
NumPlacements(m) == Len(YPositions(m, 0)) * Len(XPositions(m, 0))

(* ---------------- GeomSpec: the pure functions on every configuration ---------------- *)
Im2Rows(maxExtent, maxStride, maxDepth) ==
    [WindowWidth : 1..maxExtent, WindowHeight : 1..maxExtent,
     StrideX : 1..maxStride, StrideY : 1..maxStride,
     InputWidth : 1..maxExtent, InputHeight : 1..maxExtent,
     InputDepth : 1..maxDepth]

NoGeo == [numX |-> -1, numY |-> -1, rows |-> -1, cols |-> -1, outLen |-> -1,
          inSize |-> -1, placements |-> -1, mapping |-> <<>>]

\* nil in the mapper field.
NoMapper == [creator |-> "nil", inSize |-> 0, table |-> <<>>, id |-> 0]

NoMat == [id |-> 0, creator |-> "nil", data |-> <<>>, rows |-> 0, cols |-> 0]

NoApply == [mapper |-> "nil", src |-> "nil", dst |-> "nil"]

Unlocked == "none"

IdleLoc == [call |-> "none", c |-> "nil", inCreator |-> "nil", inLen |-> 0,
            built |-> NoMapper, ret |-> NoMapper, mapperVar |-> NoMapper,
            mat |-> NoMat, n |-> 0, i |-> 0,
            nMapper |-> 0, nMakeOut |-> 0, nBuilds |-> 0,
            panic |-> "none", applied |-> NoApply]

MainInit ==
    /\ mapper = NoMapper
    /\ mapperLock = Unlocked
    /\ pc = [t \in Threads |-> "idle"]
    /\ loc = [t \in Threads |-> IdleLoc]
    /\ calls = 0
    /\ mapperCalls = <<>>
    /\ makeMapperLog = <<>>
    /\ stepLog = [t \in Threads |-> <<>>]

GeomInit ==
    /\ im \in Im2Rows(MaxExtent, MaxStride, MaxDepth)
    /\ gstep = 0
    /\ geo = NoGeo
    /\ MainInit

GeomNumX ==
    /\ gstep = 0
    /\ gstep' = 1
    /\ geo' = [geo EXCEPT !.numX = NumX(im), !.inSize = InputSize(im)]
    /\ UNCHANGED <<im, mainVars>>

GeomNumY ==
    /\ gstep = 1
    /\ gstep' = 2
    /\ geo' = [geo EXCEPT !.numY = NumY(im)]
    /\ UNCHANGED <<im, mainVars>>

GeomMakeOut ==
    /\ gstep = 2
    /\ gstep' = 3
    /\ geo' = [geo EXCEPT !.rows = MakeOutRows(im), !.cols = MakeOutCols(im),
                          !.outLen = MakeOutLen(im)]
    /\ UNCHANGED <<im, mainVars>>

GeomMapper ==
    /\ gstep = 3
    /\ gstep' = 4
    /\ geo' = [geo EXCEPT !.mapping = Mapping(im), !.placements = NumPlacements(im)]
    /\ UNCHANGED <<im, mainVars>>

GeomNext == GeomNumX \/ GeomNumY \/ GeomMakeOut \/ GeomMapper

GeomSpec == GeomInit /\ [][GeomNext]_vars

(* ---------------- the numeric backend (anyvec.Creator, anyvec.Mapper) ---------------- *)
\* Creator.MakeMapper(inSize, table): a mapper tied to the creator. id numbers
\* the mappers in the order they are made.
MakeMapper(c, inSize, table, id) ==
    [creator |-> c, inSize |-> inSize, table |-> table, id |-> id]

\* Creator.MakeVector(size): a zeroed vector.
MakeVector(size) == [k \in 1..size |-> 0]

\* The batch handed to MapAll: component k (0-based) holds k + 1, so that every
\* gathered cell tells which component of which sample it came from.
BatchData(len) == [k \in 1..len |-> k]

\* Vector.Slice(start, end)
Slice(data, start, end) == SubSeq(data, start + 1, end)

\* Mapper.Map(in, out) is defined when in has InSize() components and out has
\* one component per table entry.
MapDefined(mp, in, out) == Len(in) = mp.inSize /\ Len(out) = Len(mp.table)

\* Mapper.Map(in, out): out[k] = in[table[k]]; components without a table
\* entry are not written.
MapInto(mp, in, out) ==
    [k \in 1..Len(out) |->
        IF k <= Len(mp.table) /\ mp.table[k] + 1 \in 1..Len(in)
        THEN in[mp.table[k] + 1]
        ELSE out[k]]

\* What f may leave in the matrix it was handed.
Dirty == -1

(* ---------------- Spec: concurrent Mapper and MapAll calls ---------------- *)
\* The shared Im2Row of Spec: one row of pixels, depth 1.
MainIm2Rows ==
    {m \in Im2Rows(MainMaxExtent, MainMaxStride, 1) :
        m.InputHeight = 1 /\ m.WindowHeight = 1 /\ m.StrideY = 1}

Init ==
    /\ im \in MainIm2Rows
    /\ gstep = 0
    /\ geo = NoGeo
    /\ MainInit

\* A thread calls m.Mapper(c) directly.
CallMapper(t, c) ==
    /\ pc[t] = "idle"
    /\ calls < MaxCalls
    /\ calls' = calls + 1
    /\ loc' = [loc EXCEPT ![t] = [IdleLoc EXCEPT !.call = "Mapper", !.c = c, !.nMapper = 1]]
    /\ pc' = [pc EXCEPT ![t] = "mapper_lock"]
    /\ stepLog' = [stepLog EXCEPT ![t] = <<>>]
    /\ UNCHANGED <<im, mapper, mapperLock, mapperCalls, makeMapperLog, geomVars>>

\* A thread calls m.MapAll(in, f) with a batch of len components made by c.
CallMapAll(t, c, len) ==
    /\ pc[t] = "idle"
    /\ calls < MaxCalls
    /\ calls' = calls + 1
    /\ loc' = [loc EXCEPT ![t] =
                  [IdleLoc EXCEPT !.call = "MapAll", !.inCreator = c, !.inLen = len]]
    /\ pc' = [pc EXCEPT ![t] = "mapall_entry"]
    /\ stepLog' = [stepLog EXCEPT ![t] = <<>>]
    /\ UNCHANGED <<im, mapper, mapperLock, mapperCalls, makeMapperLog, geomVars>>

\* A variant of MapAllEntry that asks for the mapper before it looks at the length.
MapAllEntry_CheckLate(t) ==
    /\ pc[t] = "mapall_entry"
    /\ loc' = [loc EXCEPT ![t].c = loc[t].inCreator, ![t].nMapper = @ + 1]
    /\ pc' = [pc EXCEPT ![t] = "mapper_lock"]
    /\ UNCHANGED <<im, mapper, mapperLock, calls, mapperCalls, makeMapperLog, stepLog,
                   geomVars>>

\* MapAll, lines 91-96: the length check, then the call of m.Mapper(in.Creator()).
MapAllEntry(t) ==
    /\ pc[t] = "mapall_entry"
    /\ IF Rem(loc[t].inLen, InputSize(im)) # 0
       THEN /\ loc' = [loc EXCEPT ![t].panic = "length"]
            /\ pc' = [pc EXCEPT ![t] = "panicked"]
       ELSE /\ loc' = [loc EXCEPT ![t].c = loc[t].inCreator, ![t].nMapper = @ + 1]
            /\ pc' = [pc EXCEPT ![t] = "mapper_lock"]
    /\ UNCHANGED <<im, mapper, mapperLock, calls, mapperCalls, makeMapperLog, stepLog,
                   geomVars>>

\* A variant of MapperLock that does not wait for the lock.
MapperLock_NoWait(t) ==
    /\ pc[t] = "mapper_lock"
    /\ mapperLock' = t
    /\ pc' = [pc EXCEPT ![t] = "mapper_check"]
    /\ UNCHANGED <<im, mapper, loc, calls, mapperCalls, makeMapperLog, stepLog, geomVars>>

\* m.mapperLock.Lock()
MapperLock(t) ==
    /\ pc[t] = "mapper_lock"
    /\ mapperLock = Unlocked
    /\ mapperLock' = t
    /\ pc' = [pc EXCEPT ![t] = "mapper_check"]
    /\ UNCHANGED <<im, mapper, loc, calls, mapperCalls, makeMapperLog, stepLog, geomVars>>

\* A variant of MapperCheck that reuses whatever mapper is cached.
MapperCheck_AnyBackend(t) ==
    /\ pc[t] = "mapper_check"
    /\ LET hit == mapper # NoMapper
       IN  /\ pc' = [pc EXCEPT ![t] = IF hit THEN "mapper_ret" ELSE "mapper_build"]
           /\ mapperCalls' = Append(mapperCalls, [c |-> loc[t].c, built |-> ~hit])
    /\ UNCHANGED <<im, mapper, mapperLock, loc, calls, makeMapperLog, stepLog, geomVars>>

\* if m.mapper != nil && m.mapper.Creator() == c
MapperCheck(t) ==
    /\ pc[t] = "mapper_check"
    /\ LET hit == mapper # NoMapper /\ mapper.creator = loc[t].c
       IN  /\ pc' = [pc EXCEPT ![t] = IF hit THEN "mapper_ret" ELSE "mapper_build"]
           /\ mapperCalls' = Append(mapperCalls, [c |-> loc[t].c, built |-> ~hit])
    /\ UNCHANGED <<im, mapper, mapperLock, loc, calls, makeMapperLog, stepLog, geomVars>>

\* The index-table loops and c.MakeMapper(inSize, mapping).
MapperBuild(t) ==
    /\ pc[t] = "mapper_build"
    /\ LET inSize  == im.InputWidth * im.InputHeight * im.InputDepth
           mapping == Mapping(im)
       IN  /\ makeMapperLog' = Append(makeMapperLog,
                                  [creator |-> loc[t].c, inSize |-> inSize, table |-> mapping])
           /\ loc' = [loc EXCEPT
                        ![t].built = MakeMapper(loc[t].c, inSize, mapping,
                                                Len(makeMapperLog) + 1),
                        ![t].nBuilds = @ + 1]
    /\ pc' = [pc EXCEPT ![t] = "mapper_store"]
    /\ UNCHANGED <<im, mapper, mapperLock, calls, mapperCalls, stepLog, geomVars>>

\* m.mapper = <the new mapper>
MapperStore(t) ==
    /\ pc[t] = "mapper_store"
    /\ mapper' = loc[t].built
    /\ pc' = [pc EXCEPT ![t] = "mapper_ret"]
    /\ UNCHANGED <<im, mapperLock, loc, calls, mapperCalls, makeMapperLog, stepLog, geomVars>>

\* return m.mapper (lines 112 and 134): the result is read before the deferred Unlock.
MapperReturn(t) ==
    /\ pc[t] = "mapper_ret"
    /\ loc' = [loc EXCEPT ![t].ret = mapper]
    /\ pc' = [pc EXCEPT ![t] = "mapper_unlock"]
    /\ UNCHANGED <<im, mapper, mapperLock, calls, mapperCalls, makeMapperLog, stepLog,
                   geomVars>>

\* defer m.mapperLock.Unlock(); control goes back to the caller.
MapperUnlock(t) ==
    /\ pc[t] = "mapper_unlock"
    /\ mapperLock' = Unlocked
    /\ IF loc[t].call = "MapAll"
       THEN /\ loc' = [loc EXCEPT ![t].mapperVar = loc[t].ret]
            /\ pc' = [pc EXCEPT ![t] = "mapall_makeout"]
       ELSE /\ loc' = loc
            /\ pc' = [pc EXCEPT ![t] = "done"]
    /\ UNCHANGED <<im, mapper, calls, mapperCalls, makeMapperLog, stepLog, geomVars>>

\* MakeOut(c): a fresh matrix; id numbers the matrices of the running call.
MakeOut(m, c, id) ==
    LET rows == NumX(m) * NumY(m)
        cols == m.WindowWidth * m.WindowHeight * m.InputDepth
    IN  [id |-> id, creator |-> c, data |-> MakeVector(rows * cols),
         rows |-> rows, cols |-> cols]

\* imageMat := m.MakeOut(in.Creator()); n := in.Len() / inSize; i := 0
MapAllMakeOut(t) ==
    /\ pc[t] = "mapall_makeout"
    /\ loc' = [loc EXCEPT
                 ![t].mat = MakeOut(im, loc[t].inCreator, loc[t].nMakeOut + 1),
                 ![t].nMakeOut = @ + 1,
                 ![t].n = Quot(loc[t].inLen, InputSize(im)),
                 ![t].i = 0]
    /\ pc' = [pc EXCEPT ![t] = "mapall_loop"]
    /\ UNCHANGED <<im, mapper, mapperLock, calls, mapperCalls, makeMapperLog, stepLog,
                   geomVars>>

\* The loop body up to the call of f, for a given mapper and matrix.
MapSample(t, mp, mat, allocs) ==
    LET inSize == InputSize(im)
        subIn  == Slice(BatchData(loc[t].inLen), inSize * loc[t].i, inSize * (loc[t].i + 1))
        app    == [mapper |-> mp.creator, src |-> loc[t].inCreator, dst |-> mat.creator]
    IN  \/ /\ MapDefined(mp, subIn, mat.data)
           /\ loc' = [loc EXCEPT ![t].mat = [mat EXCEPT !.data = MapInto(mp, subIn, mat.data)],
                                 ![t].applied = app, ![t].nMakeOut = allocs]
           /\ pc' = [pc EXCEPT ![t] = "mapall_step"]
        \* Map is handed vectors of the wrong size: the backend either rejects
        \* them or writes the components it has table entries for.
        \/ /\ ~MapDefined(mp, subIn, mat.data)
           /\ loc' = [loc EXCEPT ![t].panic = "map", ![t].applied = app,
                                 ![t].nMakeOut = allocs]
           /\ pc' = [pc EXCEPT ![t] = "panicked"]
        \/ /\ ~MapDefined(mp, subIn, mat.data)
           /\ loc' = [loc EXCEPT ![t].mat = [mat EXCEPT !.data = MapInto(mp, subIn, mat.data)],
                                 ![t].applied = app, ![t].nMakeOut = allocs]
           /\ pc' = [pc EXCEPT ![t] = "mapall_step"]

\* A variant of MapAllLoop that applies the mapper cached in the Im2Row at
\* that moment instead of the one Mapper returned.
MapAllLoop_SharedMapper(t) ==
    /\ pc[t] = "mapall_loop"
    /\ IF loc[t].i < loc[t].n
       THEN MapSample(t, mapper, loc[t].mat, loc[t].nMakeOut)
       ELSE /\ pc' = [pc EXCEPT ![t] = "done"]
            /\ loc' = loc
    /\ UNCHANGED <<im, mapper, mapperLock, calls, mapperCalls, makeMapperLog, stepLog,
                   geomVars>>

\* A variant of MapAllLoop that allocates the matrix inside the loop.
MapAllLoop_AllocPerSample(t) ==
    /\ pc[t] = "mapall_loop"
    /\ IF loc[t].i < loc[t].n
       THEN MapSample(t, loc[t].mapperVar,
                      MakeOut(im, loc[t].inCreator, loc[t].nMakeOut + 1),
                      loc[t].nMakeOut + 1)
       ELSE /\ pc' = [pc EXCEPT ![t] = "done"]
            /\ loc' = loc
    /\ UNCHANGED <<im, mapper, mapperLock, calls, mapperCalls, makeMapperLog, stepLog,
                   geomVars>>

\* for i := 0; i < n; i++ { subIn := in.Slice(...); mapper.Map(subIn, imageMat.Data); ...
MapAllLoop(t) ==
    /\ pc[t] = "mapall_loop"
    /\ IF loc[t].i < loc[t].n
       THEN MapSample(t, loc[t].mapperVar, loc[t].mat, loc[t].nMakeOut)
       ELSE /\ pc' = [pc EXCEPT ![t] = "done"]
            /\ loc' = loc
    /\ UNCHANGED <<im, mapper, mapperLock, calls, mapperCalls, makeMapperLog, stepLog,
                   geomVars>>

\* f(i, imageMat): f sees the matrix, may overwrite it in place, and returns;
\* then i++.
MapAllStep(t, mutate) ==
    /\ pc[t] = "mapall_step"
    /\ stepLog' = [stepLog EXCEPT ![t] =
                      Append(@, [idx |-> loc[t].i, mat |-> loc[t].mat.id,
                                 data |-> loc[t].mat.data])]
    /\ loc' = [loc EXCEPT
                 ![t].mat.data = IF mutate THEN [k \in 1..Len(@) |-> Dirty] ELSE @,
                 ![t].i = @ + 1]
    /\ pc' = [pc EXCEPT ![t] = "mapall_loop"]
    /\ UNCHANGED <<im, mapper, mapperLock, calls, mapperCalls, makeMapperLog, geomVars>>

\* The call has returned; the thread is free to make another one.
Return(t) ==
    /\ pc[t] = "done"
    /\ pc' = [pc EXCEPT ![t] = "idle"]
    /\ loc' = [loc EXCEPT ![t] = IdleLoc]
    /\ stepLog' = [stepLog EXCEPT ![t] = <<>>]
    /\ UNCHANGED <<im, mapper, mapperLock, calls, mapperCalls, makeMapperLog, geomVars>>

Next ==
    \E t \in Threads :
        \/ \E c \in Backends : CallMapper(t, c)
        \/ \E c \in Backends, len \in 0..MaxBatchLen : CallMapAll(t, c, len)
        \/ MapAllEntry(t)
        \/ MapperLock(t)
        \/ MapperCheck(t)
        \/ MapperBuild(t)
        \/ MapperStore(t)
        \/ MapperReturn(t)
        \/ MapperUnlock(t)
        \/ MapAllMakeOut(t)
        \/ MapAllLoop(t)
        \/ \E mutate \in BOOLEAN : MapAllStep(t, mutate)
        \/ Return(t)

Spec == Init /\ [][Next]_vars

(* ---------------- properties of Mapper and MapAll ---------------- *)
WindowFits(m) == m.WindowWidth <= m.InputWidth /\ m.WindowHeight <= m.InputHeight

\* Between the cache check and the release of the lock.
InMapper(t) ==
    pc[t] \in {"mapper_check", "mapper_build", "mapper_store", "mapper_ret", "mapper_unlock"}

NumBuilt == Cardinality({k \in 1..Len(mapperCalls) : mapperCalls[k].built})

\* C1: a batch whose length is no multiple of InputSize() makes MapAll panic
\* before anything else: f is never called, no vector is allocated, no mapper
\* is asked for or built, and the panicking step leaves the cached mapper (and
\* its lock) as they were.
C1_RejectedState ==
    \A t \in Threads :
        (loc[t].call = "MapAll" /\ loc[t].inLen % InputSize(im) # 0) =>
            /\ pc[t] \in {"mapall_entry", "panicked"}
            /\ stepLog[t] = <<>>
            /\ loc[t].nMakeOut = 0
            /\ loc[t].nMapper = 0
            /\ loc[t].nBuilds = 0
            /\ loc[t].mat = NoMat
            /\ (pc[t] = "panicked" => loc[t].panic = "length")

C1_RejectedStep ==
    \A t \in Threads :
        (pc[t] = "mapall_entry" /\ pc'[t] = "panicked") =>
            /\ mapper' = mapper
            /\ mapperLock' = mapperLock
            /\ makeMapperLog' = makeMapperLog
            /\ mapperCalls' = mapperCalls

C1_BadLengthRejectedFirst == []C1_RejectedState /\ [][C1_RejectedStep]_vars

C1_Witness ==
    \E t \in Threads :
        /\ pc[t] = "panicked" /\ loc[t].panic = "length"
        /\ mapper # NoMapper

\* The cells of the matrix are exactly the values the table gathers from
\* sample i of the batch.
GatheredFrom(data, len, i) ==
    \A k \in 1..Len(data) :
        /\ k <= Len(Mapping(im))
        /\ data[k] = BatchData(len)[i * InputSize(im) + Mapping(im)[k] + 1]

StepPerSample(t) ==
    /\ \A j \in 1..Len(stepLog[t]) :
          /\ stepLog[t][j].idx = j - 1
          /\ GatheredFrom(stepLog[t][j].data, loc[t].inLen, j - 1)
    /\ (pc[t] = "mapall_step" =>
          /\ Len(stepLog[t]) = loc[t].i
          /\ GatheredFrom(loc[t].mat.data, loc[t].inLen, loc[t].i))
    /\ (pc[t] = "mapall_loop" => Len(stepLog[t]) = loc[t].i)
    /\ (pc[t] = "done" => Len(stepLog[t]) = loc[t].inLen \div InputSize(im))
    /\ (pc[t] = "panicked" => loc[t].panic = "length")

\* C2: for a batch of n samples MapAll calls f exactly n times, with indices
\* 0, 1, ..., n-1 in that order, each call right after sample i was mapped, and
\* when call i starts every cell of the matrix holds the value gathered from
\* sample i (none from another sample, none left by f).
C2_StepPerSampleInOrder ==
    \A t \in Threads : loc[t].call = "MapAll" => StepPerSample(t)

\* What holds of the code in place of C2: the same, for an Im2Row whose
\* window fits in its input.
StepPerSampleWhenWindowFits ==
    WindowFits(im) => \A t \in Threads : loc[t].call = "MapAll" => StepPerSample(t)

\* C3: a build (MakeMapper call) happens on the first Mapper call and on every
\* call whose backend differs from the cached mapper's, and on no other; a call
\* with the cached backend returns the cached mapper; A, B, A builds three
\* times; every build gets the same table and the source length InputSize().
C3_BuildOnFirstAndOnSwitch ==
    /\ \A k \in 1..Len(mapperCalls) :
          mapperCalls[k].built <=> (k = 1 \/ mapperCalls[k - 1].c # mapperCalls[k].c)
    /\ Len(makeMapperLog)
         = NumBuilt - Cardinality({t \in Threads : pc[t] = "mapper_build"})
    /\ \A k \in 1..Len(makeMapperLog) :
          /\ makeMapperLog[k].inSize = InputSize(im)
          /\ makeMapperLog[k].table = makeMapperLog[1].table
    /\ mapper.id \in {0, Len(makeMapperLog), Len(makeMapperLog) - 1}
    /\ \A t \in Threads :
          pc[t] = "mapper_unlock" =>
              /\ loc[t].ret = mapper
              /\ loc[t].ret.id = Len(makeMapperLog)
              /\ loc[t].ret.creator = loc[t].c

C3_Witness ==
    /\ Len(mapperCalls) = 3
    /\ mapperCalls[1].c = "A" /\ mapperCalls[2].c = "B" /\ mapperCalls[3].c = "A"
    /\ Len(makeMapperLog) = 3
    /\ mapper.creator = "A" /\ mapper.id = 3

\* C4: the check-build-store sequences of concurrent Mapper calls never
\* overlap, and nobody reads the cache while another thread is inside one; so
\* when every caller passes the same backend the table is built and compiled
\* once and every caller gets that one mapper.
C4_MapperCallsSerialized ==
    /\ \A t1, t2 \in Threads : (InMapper(t1) /\ InMapper(t2)) => t1 = t2
    /\ \A t \in Threads : InMapper(t) => mapperLock = t
    /\ (\A k \in 1..Len(mapperCalls) : mapperCalls[k].c = mapperCalls[1].c) =>
          /\ Len(makeMapperLog) <= 1
          /\ \A t \in Threads : loc[t].ret # NoMapper => loc[t].ret.id = 1

C4_Witness ==
    \E t1, t2 \in Threads :
        /\ t1 # t2
        /\ pc[t1] = "done" /\ loc[t1].call = "Mapper" /\ loc[t1].nBuilds = 1
        /\ pc[t2] = "mapper_unlock" /\ loc[t2].call = "Mapper" /\ loc[t2].nBuilds = 0
        /\ loc[t1].c = loc[t2].c
        /\ loc[t1].ret = loc[t2].ret /\ loc[t1].ret.id = 1
        /\ Len(makeMapperLog) = 1

\* C5: whatever the interleaving, the mapper Mapper(c) returns was built for
\* c, and MapAll applies a mapper only to a source and a matrix of the
\* mapper's own backend.
C5_MapperOfOwnBackend ==
    \A t \in Threads :
        /\ loc[t].ret # NoMapper => loc[t].ret.creator = loc[t].c
        /\ loc[t].mapperVar # NoMapper => loc[t].mapperVar.creator = loc[t].inCreator
        /\ loc[t].applied # NoApply =>
              /\ loc[t].applied.mapper = loc[t].applied.src
              /\ loc[t].applied.mapper = loc[t].applied.dst

\* A mapper is applied after another thread has replaced the cached one.
C5_Witness ==
    \E t \in Threads :
        /\ pc[t] = "mapall_step"
        /\ loc[t].applied.mapper = "A"
        /\ mapper.creator = "B"

\* C9: one MapAll call allocates its matrix once, before the first sample is
\* mapped, hands that same matrix to every call of f, and asks for the mapper
\* once; the loop neither allocates nor looks the mapper up.
C9_OneMatrixOneMapper ==
    \A t \in Threads :
        loc[t].call = "MapAll" =>
            /\ loc[t].nMapper <= 1
            /\ loc[t].nMakeOut <= 1
            /\ (pc[t] \in {"mapall_loop", "mapall_step", "done"} =>
                  /\ loc[t].nMapper = 1
                  /\ loc[t].nMakeOut = 1)
            /\ (loc[t].applied # NoApply => loc[t].nMakeOut = 1)
            /\ \A j \in 1..Len(stepLog[t]) : stepLog[t][j].mat = 1

C9_Witness ==
    \E t \in Threads :
        /\ pc[t] = "done" /\ loc[t].call = "MapAll"
        /\ Len(stepLog[t]) = 2
        /\ stepLog[t][1].mat = stepLog[t][2].mat
        /\ loc[t].nMakeOut = 1 /\ loc[t].nMapper = 1

(* ---------------- properties of the geometry and of the index table ---------------- *)
\* C6: with positive strides and extents, a window wider than the input gives
\* NumX() = 0, a window taller than the input gives NumY() = 0, and neither
\* result is ever negative.
C6_OversizeWindowGivesZero ==
    gstep >= 2 =>
        /\ (im.WindowWidth > im.InputWidth => geo.numX = 0)
        /\ (im.WindowHeight > im.InputHeight => geo.numY = 0)
        /\ geo.numX >= 0
        /\ geo.numY >= 0

\* The part of C6 the code does keep: the results are never negative, and a
\* window that exceeds the input by at least one stride gives 0.
NumNeverNegative ==
    gstep >= 2 =>
        /\ geo.numX >= 0
        /\ geo.numY >= 0
        /\ (im.WindowWidth - im.InputWidth >= im.StrideX => geo.numX = 0)
        /\ (im.WindowHeight - im.InputHeight >= im.StrideY => geo.numY = 0)

\* The window placements, stated without the loops: the multiples of the
\* stride at which the window still lies inside the input.
PlacementSet(m) ==
    {p \in (0..m.InputHeight) \X (0..m.InputWidth) :
        /\ p[1] % m.StrideY = 0 /\ p[1] + m.WindowHeight <= m.InputHeight
        /\ p[2] % m.StrideX = 0 /\ p[2] + m.WindowWidth <= m.InputWidth}

\* C7: when the window fits in the input, NumX() * NumY() is the number of
\* distinct (x, y) placements the two outer loops of Mapper enumerate.
C7_NumXNumYCountsPlacements ==
    (gstep = 4 /\ WindowFits(im)) =>
        /\ geo.numX * geo.numY = geo.placements
        /\ geo.placements = Cardinality(PlacementSet(im))

C7_Witness ==
    /\ gstep = 4 /\ WindowFits(im)
    /\ im.StrideX = 2 /\ (im.InputWidth - im.WindowWidth) % 2 = 1
    /\ geo.numX = 2 /\ geo.numY = 3 /\ geo.placements = 6

\* C8: for every configuration, windows larger than the input included, the
\* index table has NumX() * NumY() * WindowWidth * WindowHeight * InputDepth
\* entries, which is the length of the vector MakeOut allocates.
C8_TableLengthIsOutLength ==
    gstep = 4 =>
        /\ Len(geo.mapping)
             = geo.numX * geo.numY * im.WindowWidth * im.WindowHeight * im.InputDepth
        /\ Len(geo.mapping) = geo.outLen
        /\ geo.rows = geo.numX * geo.numY

\* What holds of the code in place of C8: the two lengths agree when the
\* window fits in the input.
TableLengthWhenWindowFits ==
    (gstep = 4 /\ WindowFits(im)) =>
        /\ Len(geo.mapping) = geo.outLen
        /\ geo.rows = geo.placements

\* The entry C10 gives for the k-th (0-based) element of the table.
ScanOrderEntry(m, k) ==
    LET nx   == Cardinality({x \in 0..m.InputWidth :
                    x % m.StrideX = 0 /\ x + m.WindowWidth <= m.InputWidth})
        vol  == m.WindowHeight * m.WindowWidth * m.InputDepth
        p    == k \div vol
        r    == k % vol
        y    == (p \div nx) * m.StrideY
        x    == (p % nx) * m.StrideX
        subY == r \div (m.WindowWidth * m.InputDepth)
        subX == (r \div m.InputDepth) % m.WindowWidth
        subZ == r % m.InputDepth
    IN  ((y + subY) * m.InputWidth + (x + subX)) * m.InputDepth + subZ

ExampleIm2Row ==
    [WindowWidth |-> 2, WindowHeight |-> 2, StrideX |-> 2, StrideY |-> 2,
     InputWidth |-> 4, InputHeight |-> 4, InputDepth |-> 1]

\* C10: the table is in row-major scan order (y, x, subY, subX, subZ from
\* outermost to innermost), its entry for (y, x, subY, subX, subZ) is
\* ((y + subY) * InputWidth + (x + subX)) * InputDepth + subZ, every entry is
\* in [0, InputSize()), and the 4x4x1 input with a 2x2 window and stride 2
\* gives 16 entries starting 0, 1, 4, 5.
C10_TableInScanOrder ==
    gstep = 4 =>
        /\ Len(geo.mapping)
             = Cardinality(PlacementSet(im))
                 * im.WindowHeight * im.WindowWidth * im.InputDepth
        /\ \A k \in 1..Len(geo.mapping) :
              /\ geo.mapping[k] = ScanOrderEntry(im, k - 1)
              /\ geo.mapping[k] >= 0
              /\ geo.mapping[k] < geo.inSize
        /\ (im = ExampleIm2Row =>
              /\ Len(geo.mapping) = 16
              /\ SubSeq(geo.mapping, 1, 4) = <<0, 1, 4, 5>>)

C10_Witness ==
    /\ gstep = 4
    /\ im = ExampleIm2Row
    /\ geo.mapping = <<0, 1, 4, 5, 2, 3, 6, 7, 8, 9, 12, 13, 10, 11, 14, 15>>

====
